---- MODULE Spec2Model ----
(***************************************************************************)
(* NeuraPay (src/main.go): the three tool handlers analyze_spending,       *)
(* analyze_money_personality and get_csv_transactions, the CSV loader they *)
(* share, and the pure analytics they call (analyzeTransactions,           *)
(* calculateVelocity, calculatePersonalityScores, matchArchetype).         *)
(*                                                                         *)
(* Numbers.  A float64 amount or balance is held as an integer count of    *)
(* eighths of a currency unit: such values and their sums are exact in     *)
(* float64, so the model's integer arithmetic is the program's arithmetic. *)
(* A "%.2f" string is held as the integer number of cents it shows.  A     *)
(* personality score is held as whole points, floor(value); an archetype   *)
(* formula value as tenths of a point; a confidence as thousandths.        *)
(***************************************************************************)
EXTENDS Integers, Sequences, FiniteSets, TLC

VARIABLES
    ledger,        \* the data rows of transactions.csv / the account history
    transactions,  \* the handler's fetched []map[string]interface{}
    categories,    \* analyzeTransactions' sorted slice of categoryTotal
    scores,        \* the map calculatePersonalityScores returned
    archetype,     \* the PersonalityArchetype matchArchetype returned
    result,        \* what the last handler invocation returned
    calls          \* the analyzer calls in progress on goroutines: their locals

vars == <<ledger, transactions, categories, scores, archetype, result, calls>>

(***************************************************************************)
(* interface{} values of a transaction map.                                *)
(***************************************************************************)
F(n) == [tag |-> "float64", num |-> n, str |-> ""]
S(s) == [tag |-> "string", num |-> 0, str |-> s]
Nil == [tag |-> "nil", num |-> 0, str |-> ""]

\* v, _ := x.(string): the zero value when x holds another type or is absent
asString(v) == IF v.tag = "string" THEN v.str ELSE ""
\* v, _ := x.(float64)
asFloat(v) == IF v.tag = "float64" THEN v.num ELSE 0

Min(a, b) == IF a < b THEN a ELSE b

(***************************************************************************)
(* strconv.ParseFloat on the cell texts the model's files hold: the        *)
(* decimal literals below parse (to eighths), every other text is an       *)
(* error.                                                                  *)
(***************************************************************************)
FloatLiterals ==
    ("0" :> 0) @@ ("0.50" :> 4) @@ ("1.00" :> 8) @@ ("1.50" :> 12)
    @@ ("2.50" :> 20) @@ ("3.00" :> 24) @@ ("0.125" :> 1) @@ ("0.375" :> 3)
    @@ ("-1.00" :> -8)

ParseFloat(s) ==
    IF s \in DOMAIN FloatLiterals
    THEN [ok |-> TRUE, val |-> FloatLiterals[s]]
    ELSE [ok |-> FALSE, val |-> 0]

\* The columns of the CSV header that the analyzers read.
Columns == {"type", "amount", "category", "balance_after"}

\* One cell of a data row, as the loader stores it under its column name.
csvCell(columnName, value) ==
    IF columnName \in {"amount", "balance_after"}
    THEN IF ParseFloat(value).ok THEN F(ParseFloat(value).val) ELSE S(value)
    ELSE S(value)

csvRow(record) == [c \in Columns |-> csvCell(c, record[c])]

\* fileState: "ok", or why the file cannot be read.
loadTransactionsFromCSV(fileState, rows) ==
    CASE fileState = "open_error" ->
            [err |-> "failed to open CSV file", txs |-> <<>>]
      [] fileState = "header_error" ->
            [err |-> "failed to read CSV header", txs |-> <<>>]
      [] fileState = "row_error" ->
            [err |-> "error reading CSV row", txs |-> <<>>]
      [] OTHER ->
            [err |-> "", txs |-> [i \in 1..Len(rows) |-> csvRow(rows[i])]]

CSVFileStates == {"ok", "open_error", "header_error", "row_error"}

(***************************************************************************)
(* The get_transactions response of the Liminal API, as the handlers       *)
(* decode it: a JSON number where the ledger holds a number, no key where  *)
(* it holds nothing, a JSON string otherwise.                              *)
(***************************************************************************)
jsonValue(columnName, value) ==
    IF value = "" THEN Nil
    ELSE IF columnName \in {"amount", "balance_after"} /\ ParseFloat(value).ok
         THEN F(ParseFloat(value).val)
         ELSE S(value)

jsonTx(record) == [c \in Columns |-> jsonValue(c, record[c])]

\* apiState: "ok", or how the call or the decoding of its data fails.
fetchTransactions(apiState, rows) ==
    CASE apiState = "execute_error" ->
            [err |-> "failed to fetch transactions", txs |-> <<>>]
      [] apiState = "not_success" ->
            [err |-> "transaction fetch failed", txs |-> <<>>]
      [] apiState = "undecodable" ->
            [err |-> "", txs |-> <<>>]
      [] OTHER ->
            [err |-> "", txs |-> [i \in 1..Len(rows) |-> jsonTx(rows[i])]]

APIStates == {"ok", "execute_error", "not_success", "undecodable"}

(***************************************************************************)
(* fmt.Sprintf("%.2f", x): the decimal nearest to x, an exact tie going to *)
(* the even digit.  n/d is the value; the result is in cents.              *)
(***************************************************************************)
RoundHalfEven(n, d) ==
    LET nn == IF d < 0 THEN -n ELSE n
        dd == IF d < 0 THEN -d ELSE d
        q == nn \div dd
        r == nn - q * dd
    IN  IF 2 * r < dd THEN q
        ELSE IF 2 * r > dd THEN q + 1
        ELSE IF q % 2 = 0 THEN q ELSE q + 1

\* "%.2f" of an amount held in eighths
Format2(x) == [txt |-> "", cents |-> RoundHalfEven(x * 100, 8)]

\* "%.2f" of x / float64(days); a zero divisor gives an infinity or a NaN
FormatQuot2(x, days) ==
    IF days = 0
    THEN [txt |-> IF x > 0 THEN "+Inf" ELSE IF x < 0 THEN "-Inf" ELSE "NaN",
          cents |-> 0]
    ELSE [txt |-> "", cents |-> RoundHalfEven(x * 100, 8 * days)]

\* "$%.2f"
FormatDollar2(x) == [txt |-> "$", cents |-> RoundHalfEven(x * 100, 8)]

(***************************************************************************)
(* calculateVelocity                                                       *)
(***************************************************************************)
\* txPerWeek < k, for txPerWeek = float64(count) / float64(days) * 7
txPerWeekBelow(count, days, k) ==
    IF days > 0 THEN 7 * count < k * days
    ELSE IF days < 0 THEN 7 * count > k * days
    ELSE FALSE  \* +Inf or NaN: no comparison holds

\* calculateVelocity with its bounds taken inclusive-high: exactly 2 is "low".
calculateVelocityInclusiveHigh(transactionCount, days) ==
    IF txPerWeekBelow(transactionCount, days, 2) \/ 7 * transactionCount = 2 * days
    THEN "low"
    ELSE IF txPerWeekBelow(transactionCount, days, 7) \/ 7 * transactionCount = 7 * days
    THEN "moderate"
    ELSE "high"

calculateVelocity(transactionCount, days) ==
    IF txPerWeekBelow(transactionCount, days, 2) THEN "low"
    ELSE IF txPerWeekBelow(transactionCount, days, 7) THEN "moderate"
    ELSE "high"

(***************************************************************************)
(* analyzeTransactions                                                     *)
(***************************************************************************)
\* analyzeRecord with a default case that treats any other type as a send.
analyzeRecordDefaultAsSend(acc, tx) ==
    LET txType == asString(tx.type)
        amount == asFloat(tx.amount)
        category == asString(tx.category)
        cs == acc.categorySpending
    IN  IF txType = "receive"
        THEN [acc EXCEPT
                !.totalReceived = @ + amount,
                !.receiveCount = @ + 1]
        ELSE [acc EXCEPT
                !.totalSpent = @ + amount,
                !.spendCount = @ + 1,
                !.categorySpending =
                    IF category = "" THEN cs
                    ELSE IF category \in DOMAIN cs
                         THEN [cs EXCEPT ![category] = @ + amount]
                         ELSE cs @@ (category :> amount)]

\* analyzeRecord with the receive case adding to the spent total.
analyzeRecordReceiveAsSpent(acc, tx) ==
    LET txType == asString(tx.type)
        amount == asFloat(tx.amount)
        category == asString(tx.category)
        cs == acc.categorySpending
    IN  IF txType = "send"
        THEN [acc EXCEPT
                !.totalSpent = @ + amount,
                !.spendCount = @ + 1,
                !.categorySpending =
                    IF category = "" THEN cs
                    ELSE IF category \in DOMAIN cs
                         THEN [cs EXCEPT ![category] = @ + amount]
                         ELSE cs @@ (category :> amount)]
        ELSE IF txType = "receive"
        THEN [acc EXCEPT
                !.totalSpent = @ + amount,
                !.receiveCount = @ + 1]
        ELSE acc

\* One pass of the loop body: the switch on txType.
analyzeRecord(acc, tx) ==
    LET txType == asString(tx.type)
        amount == asFloat(tx.amount)
        category == asString(tx.category)
        cs == acc.categorySpending
    IN  IF txType = "send"
        THEN [acc EXCEPT
                !.totalSpent = @ + amount,
                !.spendCount = @ + 1,
                !.categorySpending =
                    IF category = "" THEN cs
                    ELSE IF category \in DOMAIN cs
                         THEN [cs EXCEPT ![category] = @ + amount]
                         ELSE cs @@ (category :> amount)]
        ELSE IF txType = "receive"
        THEN [acc EXCEPT
                !.totalReceived = @ + amount,
                !.receiveCount = @ + 1]
        ELSE acc

\* The accumulation loop over the records, from record i on.
RECURSIVE analyzeLoop(_, _, _)
analyzeLoop(txs, i, acc) ==
    IF i > Len(txs) THEN acc
    ELSE analyzeLoop(txs, i + 1, analyzeRecord(acc, txs[i]))

\* The locals of the accumulation loop before its first pass.
NoTotals ==
    [totalSpent |-> 0, totalReceived |-> 0, spendCount |-> 0,
     receiveCount |-> 0, categorySpending |-> <<>>]

analyzeTotals(txs) == analyzeLoop(txs, 1, NoTotals)

\* Every order in which a range over a map with these keys may visit them.
RECURSIVE rangeOrders(_)
rangeOrders(keys) ==
    IF keys = {} THEN {<<>>}
    ELSE UNION {{<<k>> \o rest : rest \in rangeOrders(keys \ {k})} : k \in keys}

\* categoryLess with < for >: an ascending sort.
categoryLessAscending(a, b) == a.Amount < b.Amount

\* less(i, j) of the sort.Slice call
categoryLess(a, b) == a.Amount > b.Amount

\* sort.Slice on a slice of at most 12 elements: an insertion sort.
RECURSIVE insertCategory(_, _)
insertCategory(sorted, x) ==
    IF sorted = <<>> THEN <<x>>
    ELSE IF categoryLess(x, sorted[Len(sorted)])
         THEN Append(insertCategory(SubSeq(sorted, 1, Len(sorted) - 1), x),
                     sorted[Len(sorted)])
         ELSE Append(sorted, x)

RECURSIVE sortCategories(_, _)
sortCategories(slice, n) ==
    IF n = 0 THEN <<>>
    ELSE insertCategory(sortCategories(slice, n - 1), slice[n])

\* The slice `categories` after the sort, the map having been ranged in `order`.
rankedCategories(categorySpending, order) ==
    LET slice == [i \in 1..Len(order) |->
                    [Category |-> order[i], Amount |-> categorySpending[order[i]]]]
    IN  sortCategories(slice, Len(slice))

TopN == 5

topCategoriesOf(ranked) ==
    LET kept == {i \in 1..Len(ranked) : i <= TopN}
    IN  [c \in {ranked[i].Category : i \in kept} |->
            FormatDollar2((CHOOSE e \in {ranked[i] : i \in kept} : e.Category = c).Amount)]

NoDataSummary == "No transactions found in the specified period"

\* The report; `order` is the order in which the range over categorySpending
\* visits its keys.
\* netCashflow as the difference of the two totals as displayed.
netCashflowOfDisplayed(totalReceived, totalSpent) ==
    [txt |-> "", cents |-> Format2(totalReceived).cents - Format2(totalSpent).cents]

\* fmt.Sprintf("%.2f", totalReceived-totalSpent)
netCashflow(totalReceived, totalSpent) == Format2(totalReceived - totalSpent)

\* The report that analyzeTransactions returns after its loop has left the
\* totals t.
reportOf(t, days, order) ==
    LET avgDailySpend == FormatQuot2(t.totalSpent, days)
        net == netCashflow(t.totalReceived, t.totalSpent)
    IN  [total_spent |-> Format2(t.totalSpent),
         total_received |-> Format2(t.totalReceived),
         net_cashflow |-> net,
         spend_count |-> t.spendCount,
         receive_count |-> t.receiveCount,
         avg_daily_spend |-> avgDailySpend,
         velocity |-> calculateVelocity(t.spendCount, days),
         top_categories |->
             topCategoriesOf(rankedCategories(t.categorySpending, order)),
         insights |-> <<[count |-> t.spendCount, days |-> days],
                        avgDailySpend, net>>]

\* analyzeTransactions without its empty-list case.
analyzeTransactionsNoEmptyCase(txs, days, order) ==
    reportOf(analyzeTotals(txs), days, order)

analyzeTransactions(txs, days, order) ==
    IF Len(txs) = 0 THEN [summary |-> NoDataSummary]
    ELSE reportOf(analyzeTotals(txs), days, order)

\* The local slice `categories` when analyzeTransactions returns.
categoriesOf(txs, order) ==
    IF Len(txs) = 0 THEN <<>>
    ELSE rankedCategories(analyzeTotals(txs).categorySpending, order)

(***************************************************************************)
(* ToolResult values.  goErr is the handler's second return value; fault   *)
(* is "panic" when the handler does not return at all.                     *)
(***************************************************************************)
NoData == [kind |-> "none"]

Failure(tool, message) ==
    [tool |-> tool, Success |-> FALSE, Error |-> message, Data |-> NoData,
     goErr |-> "nil", fault |-> ""]

Succeed(tool, data) ==
    [tool |-> tool, Success |-> TRUE, Error |-> "", Data |-> data,
     goErr |-> "nil", fault |-> ""]

Panic(tool) ==
    [tool |-> tool, Success |-> FALSE, Error |-> "", Data |-> NoData,
     goErr |-> "", fault |-> "panic"]

NoResult ==
    [tool |-> "", Success |-> FALSE, Error |-> "", Data |-> NoData,
     goErr |-> "", fault |-> ""]

\* The fetch of STEP 1: from the CSV file or from the API.  sourceState is
\* the state of the file for the one, of the API call for the other.
fetch(useCSV, sourceState, rows) ==
    IF useCSV
    THEN LET l == loadTransactionsFromCSV(sourceState, rows)
         IN  [err |-> IF l.err = "" THEN "" ELSE "failed to load CSV",
              txs |-> l.txs]
    ELSE fetchTransactions(sourceState, rows)

SourceStates(useCSV) == IF useCSV THEN CSVFileStates ELSE APIStates

(***************************************************************************)
(* calculatePersonalityScores                                              *)
(***************************************************************************)
RECURSIVE GCD(_, _)
GCD(a, b) == IF b = 0 THEN a ELSE GCD(b, a % b)

\* The rational n/d (d > 0) in lowest terms.
Q(n, d) ==
    LET g == GCD(IF n < 0 THEN -n ELSE n, d)
    IN  [n |-> n \div g, d |-> d \div g]

RECURSIVE Isqrt(_, _)
Isqrt(x, k) == IF (k + 1) * (k + 1) > x THEN k ELSE Isqrt(x, k + 1)

RECURSIVE sumValues(_, _)
sumValues(values, n) == IF n = 0 THEN 0 ELSE sumValues(values, n - 1) + values[n]

calculateMean(values) ==
    IF Len(values) = 0 THEN Q(0, 1)
    ELSE Q(sumValues(values, Len(values)), Len(values))

\* the sum of diff * diff over the first n values, diff = v - mean
RECURSIVE sumSquares(_, _, _)
sumSquares(values, mean, n) ==
    IF n = 0 THEN Q(0, 1)
    ELSE LET prev == sumSquares(values, mean, n - 1)
             diff == Q(values[n] * mean.d - mean.n, mean.d)
             sq == Q(diff.n * diff.n, diff.d * diff.d)
         IN  Q(prev.n * sq.d + sq.n * prev.d, prev.d * sq.d)

calculateVariance(values) ==
    IF Len(values) = 0 THEN Q(0, 1)
    ELSE LET ss == sumSquares(values, calculateMean(values), Len(values))
         IN  Q(ss.n, ss.d * Len(values))

\* scoreRecord with >= for > in the balance test.
scoreRecordAnyBalance(acc, tx) ==
    LET txType == asString(tx.type)
        amount == asFloat(tx.amount)
        category == asString(tx.category)
        balance == asFloat(tx.balance_after)
        a1 == IF txType = "send"
              THEN [acc EXCEPT
                      !.amounts = Append(@, amount),
                      !.savingsTransactions =
                          IF category = "savings" THEN @ + 1 ELSE @]
              ELSE acc
    IN  IF balance >= 0
        THEN [a1 EXCEPT !.balances = Append(@, balance)]
        ELSE a1

\* One pass of the collecting loop, over the record tx.
scoreRecord(acc, tx) ==
    LET txType == asString(tx.type)
        amount == asFloat(tx.amount)
        category == asString(tx.category)
        balance == asFloat(tx.balance_after)
        a1 == IF txType = "send"
              THEN [acc EXCEPT
                      !.amounts = Append(@, amount),
                      !.savingsTransactions =
                          IF category = "savings" THEN @ + 1 ELSE @]
              ELSE acc
    IN  IF balance > 0
        THEN [a1 EXCEPT !.balances = Append(@, balance)]
        ELSE a1

\* The collecting loop over the records, from record i on.
RECURSIVE scoreLoop(_, _, _)
scoreLoop(txs, i, acc) ==
    IF i > Len(txs) THEN acc
    ELSE scoreLoop(txs, i + 1, scoreRecord(acc, txs[i]))

RECURSIVE minOf(_, _)
minOf(values, n) ==
    IF n = 1 THEN values[1] ELSE Min(minOf(values, n - 1), values[n])

\* min(txPerWeek*10, 100), txPerWeek = len/4.0
transactionVelocity(count) == Min((count * 10) \div 4, 100)

\* min(cv, 100), cv = sqrt(variance)/mean*100 when mean > 0, else 0
amountDistribution(amounts) ==
    LET variance == calculateVariance(amounts)
        mean == calculateMean(amounts)
        \* (sqrt(variance)/mean)^2
        r == Q(variance.n * mean.d * mean.d, variance.d * mean.n * mean.n)
    IN  IF mean.n > 0
        THEN IF r.n >= r.d THEN 100
             ELSE Min(Isqrt((r.n * 10000) \div r.d, 0), 100)
        ELSE 0

\* min(bufferRatio, 100), bufferRatio = minBalance/avgBalance*100
balanceComfort(balances) ==
    LET avgBalance == calculateMean(balances)
        minBalance == minOf(balances, Len(balances))
    IN  IF avgBalance.n > 0
        THEN Min((minBalance * avgBalance.d * 100) \div avgBalance.n, 100)
        ELSE 0

\* savingsAffinity without the cap at 100.
savingsAffinityUncapped(savingsTransactions, count) ==
    IF count > 0 THEN (savingsTransactions * 100 * 3) \div count ELSE 0

\* min(savingsRate, 100), savingsRate = savings/len*100*3 for a non-empty list
savingsAffinity(savingsTransactions, count) ==
    IF count > 0 THEN Min((savingsTransactions * 100 * 3) \div count, 100)
    ELSE 0

IncomeResponse == 50

\* The locals of the collecting loop before its first pass.
NoCollected == [amounts |-> <<>>, balances |-> <<>>, savingsTransactions |-> 0]

\* The score map built after the loop has collected c from count records.
scoresFrom(c, count) ==
    LET s1 == ("transaction_velocity" :> transactionVelocity(count))
        s2 == IF Len(c.amounts) > 0
              THEN ("amount_distribution" :> amountDistribution(c.amounts)) @@ s1
              ELSE s1
        s3 == IF Len(c.balances) > 0
              THEN ("balance_comfort" :> balanceComfort(c.balances)) @@ s2
              ELSE s2
        s4 == ("savings_affinity" :> savingsAffinity(c.savingsTransactions, count))
              @@ s3
    IN  ("income_response" :> IncomeResponse) @@ s4

calculatePersonalityScores(txs) ==
    scoresFrom(scoreLoop(txs, 1, NoCollected), Len(txs))

\* No call of calculatePersonalityScores: it never returns an empty map.
NoScores == <<>>

(***************************************************************************)
(* matchArchetype                                                          *)
(***************************************************************************)
\* s["key"]: 0 for a key the map does not hold
score(s, key) == IF key \in DOMAIN s THEN s[key] ELSE 0

\* The catalog, in the order of the archetypes slice.
Archetypes ==
    <<"The Reward Seeker", "The Safety Hoarder", "The Impulse Optimizer",
      "The Cyclical Spender", "The Strategic Planner">>

\* archetypes[i].matcher(s), in tenths of a point
matcher(i, s) ==
    CASE i = 1 -> score(s, "transaction_velocity") * 4
                  + (100 - score(s, "savings_affinity")) * 3
                  + score(s, "income_response") * 3
      [] i = 2 -> score(s, "balance_comfort") * 4
                  + (100 - score(s, "transaction_velocity")) * 3
                  + score(s, "savings_affinity") * 3
      [] i = 3 -> score(s, "transaction_velocity") * 4
                  + (100 - score(s, "amount_distribution")) * 3
                  + (100 - score(s, "savings_affinity")) * 3
      [] i = 4 -> score(s, "amount_distribution") * 4
                  + score(s, "income_response") * 3
                  + (100 - score(s, "balance_comfort")) * 3
      [] OTHER -> (100 - score(s, "amount_distribution")) * 3
                  + score(s, "savings_affinity") * 3
                  + (100 - score(s, "income_response")) * 2
                  + score(s, "balance_comfort") * 2

\* bestLoop with >= for >: the last of several equal scores wins.
RECURSIVE bestLoopLastWins(_, _, _)
bestLoopLastWins(s, i, best) ==
    IF i > Len(Archetypes) THEN best
    ELSE bestLoopLastWins(s, i + 1,
            IF matcher(i, s) >= best.score
            THEN [match |-> i, score |-> matcher(i, s)]
            ELSE best)

\* One pass of the selection loop, over archetype i.
bestStep(s, i, best) ==
    IF matcher(i, s) > best.score
    THEN [match |-> i, score |-> matcher(i, s)]
    ELSE best

\* bestMatch := archetypes[0]; bestScore := 0.0
NoBest == [match |-> 1, score |-> 0]

\* The selection loop, from archetype i on: best is [match, score].
RECURSIVE bestLoop(_, _, _)
bestLoop(s, i, best) ==
    IF i > Len(Archetypes) THEN best
    ELSE bestLoop(s, i + 1, bestStep(s, i, best))

\* sort.Float64s: ascending
RECURSIVE insertFloat(_, _)
insertFloat(sorted, x) ==
    IF sorted = <<>> THEN <<x>>
    ELSE IF x < sorted[Len(sorted)]
         THEN Append(insertFloat(SubSeq(sorted, 1, Len(sorted) - 1), x),
                     sorted[Len(sorted)])
         ELSE Append(sorted, x)

RECURSIVE sortFloat64s(_, _)
sortFloat64s(slice, n) ==
    IF n = 0 THEN <<>> ELSE insertFloat(sortFloat64s(slice, n - 1), slice[n])

\* confidenceOf with the gap taken to the lowest score, not the second highest.
confidenceOfLowest(sortedScores) ==
    IF Len(sortedScores) >= 2
    THEN Min(500 + (sortedScores[Len(sortedScores)] - sortedScores[1]), 950)
    ELSE 700

\* math.Min(0.5+diff/100, 0.95) in thousandths; 0.7 for fewer than two scores
confidenceOf(sortedScores) ==
    IF Len(sortedScores) >= 2
    THEN Min(500 + (sortedScores[Len(sortedScores)]
                    - sortedScores[Len(sortedScores) - 1]), 950)
    ELSE 700

\* matchArchetype keeping its last pick between calls: a call that follows
\* another moves on to the next archetype of the catalog.
matchArchetypeRemembering(s) ==
    LET best == bestLoop(s, 1, [match |-> 1, score |-> 0])
        all == [i \in 1..Len(Archetypes) |-> matcher(i, s)]
        last == {i \in 1..Len(Archetypes) : Archetypes[i] = archetype.Type}
        pick == IF last = {} THEN best.match
                ELSE ((CHOOSE i \in last : TRUE) % Len(Archetypes)) + 1
    IN  [Type |-> Archetypes[pick],
         Confidence |-> confidenceOf(sortFloat64s(all, Len(all)))]

\* The PersonalityArchetype returned once the selection loop has left best.
archetypeFrom(best, s) ==
    LET all == [i \in 1..Len(Archetypes) |-> matcher(i, s)]
    IN  [Type |-> Archetypes[best.match],
         Confidence |-> confidenceOf(sortFloat64s(all, Len(all)))]

\* localsOf for locals kept at package level: every call works on the
\* variables of call 1.
localsShared(c) == 1

matchArchetype(s) == archetypeFrom(bestLoop(s, 1, NoBest), s)

NoArchetype == [Type |-> "", Confidence |-> 0]

(***************************************************************************)
(* The analyze_spending handler.                                           *)
(***************************************************************************)
DefaultDays == 30

\* The days values a caller sends; 0 is also what an absent key decodes to.
DaysInputs == {0, 1, 7, -7}

spendingResult(txs, days, useCSV, order) ==
    Succeed("analyze_spending",
        [kind |-> "spending",
         period_days |-> days,
         total_transactions |-> Len(txs),
         analysis |-> analyzeTransactions(txs, days, order),
         csv |-> useCSV])

\* The handler, for callers that send a days value of daysInputs and a
\* use_csv value of csvInputs.
AnalyzeSpendingFor(daysInputs, csvInputs) ==
    /\ scores' = NoScores
    /\ archetype' = NoArchetype
    /\ UNCHANGED <<ledger, calls>>
    /\ \E inputOK \in BOOLEAN :
         IF ~inputOK
         THEN /\ result' = Failure("analyze_spending", "invalid input")
              /\ transactions' = <<>>
              /\ categories' = <<>>
         ELSE \E daysIn \in daysInputs, useCSV \in csvInputs :
              \E sourceState \in SourceStates(useCSV) :
                LET days == IF daysIn = 0 THEN DefaultDays ELSE daysIn
                    f == fetch(useCSV, sourceState, ledger)
                IN  IF f.err # ""
                    THEN /\ result' = Failure("analyze_spending", f.err)
                         /\ transactions' = <<>>
                         /\ categories' = <<>>
                    ELSE \E order \in rangeOrders(
                                DOMAIN analyzeTotals(f.txs).categorySpending) :
                         /\ transactions' = f.txs
                         /\ categories' = categoriesOf(f.txs, order)
                         /\ result' = spendingResult(f.txs, days, useCSV, order)

AnalyzeSpending == AnalyzeSpendingFor(DaysInputs, BOOLEAN)

(***************************************************************************)
(* The analyze_money_personality handler.                                  *)
(***************************************************************************)
MinTransactions == 10

InsufficientData ==
    "Need at least 10 transactions for accurate personality analysis"

\* tooFewTransactions with <= for <.
tooFewTransactionsInclusive(txs) == Len(txs) <= MinTransactions

tooFewTransactions(txs) == Len(txs) < MinTransactions

\* "%.0f%%" of Confidence*100
FormatPercent(confidence) == [txt |-> "%", cents |-> RoundHalfEven(confidence, 10)]

personalityResult(sc, arch, useCSV) ==
    Succeed("analyze_money_personality",
        [kind |-> "personality",
         personality_type |-> arch.Type,
         confidence |-> FormatPercent(arch.Confidence),
         raw_scores |-> sc,
         csv |-> useCSV])

AnalyzeMoneyPersonality ==
    /\ categories' = <<>>
    /\ UNCHANGED <<ledger, calls>>
    /\ \E inputOK \in BOOLEAN :
         IF ~inputOK
         THEN /\ result' = Failure("analyze_money_personality", "invalid input")
              /\ transactions' = <<>>
              /\ scores' = NoScores
              /\ archetype' = NoArchetype
         ELSE \E useCSV \in BOOLEAN :
              \E sourceState \in SourceStates(useCSV) :
                LET f == fetch(useCSV, sourceState, ledger)
                IN  IF f.err # ""
                    THEN /\ result' = Failure("analyze_money_personality", f.err)
                         /\ transactions' = <<>>
                         /\ scores' = NoScores
                         /\ archetype' = NoArchetype
                    ELSE IF tooFewTransactions(f.txs)
                    THEN /\ result' = Failure("analyze_money_personality",
                                              InsufficientData)
                         /\ transactions' = f.txs
                         /\ scores' = NoScores
                         /\ archetype' = NoArchetype
                    ELSE /\ transactions' = f.txs
                         /\ scores' = calculatePersonalityScores(f.txs)
                         /\ archetype' = matchArchetype(scores')
                         /\ result' = personalityResult(scores', archetype', useCSV)

(***************************************************************************)
(* The get_csv_transactions handler.                                       *)
(***************************************************************************)
DefaultLimit == 50

\* The limit values a caller sends; 0 is also what an absent key decodes to.
LimitInputs == {0, 2, -1}

\* transactions[:limit] panics for a limit below 0
GetCSVTransactions ==
    /\ categories' = <<>>
    /\ scores' = NoScores
    /\ archetype' = NoArchetype
    /\ UNCHANGED <<ledger, calls>>
    /\ \E inputOK \in BOOLEAN :
         IF ~inputOK
         THEN /\ result' = Failure("get_csv_transactions", "invalid input")
              /\ transactions' = <<>>
         ELSE \E limitIn \in LimitInputs, fileState \in CSVFileStates :
                LET limit == IF limitIn = 0 THEN DefaultLimit ELSE limitIn
                    l == loadTransactionsFromCSV(fileState, ledger)
                IN  IF l.err # ""
                    THEN /\ result' = Failure("get_csv_transactions",
                                              "failed to load transactions from CSV")
                         /\ transactions' = <<>>
                    ELSE IF Len(l.txs) > limit
                    THEN IF limit < 0
                         THEN /\ result' = Panic("get_csv_transactions")
                              /\ transactions' = l.txs
                         ELSE /\ transactions' = SubSeq(l.txs, 1, limit)
                              /\ result' = Succeed("get_csv_transactions",
                                    [kind |-> "csv",
                                     transactions |-> transactions',
                                     count |-> Len(transactions')])
                    ELSE /\ transactions' = l.txs
                         /\ result' = Succeed("get_csv_transactions",
                                [kind |-> "csv",
                                 transactions |-> transactions',
                                 count |-> Len(transactions')])

(***************************************************************************)
(* Direct calls of the pure analytics, as a unit test makes them.          *)
(***************************************************************************)
CallScorer ==
    /\ transactions' = loadTransactionsFromCSV("ok", ledger).txs
    /\ scores' = calculatePersonalityScores(transactions')
    /\ categories' = <<>>
    /\ archetype' = NoArchetype
    /\ result' = NoResult
    /\ UNCHANGED <<ledger, calls>>

CallMatcher ==
    /\ archetype' = matchArchetype(scores)
    /\ UNCHANGED <<ledger, transactions, categories, scores, result, calls>>

(***************************************************************************)
(* The environment: a transaction is added to the account history.         *)
(***************************************************************************)
AddRecord(rows, max) ==
    /\ Len(ledger) < max
    /\ \E r \in rows : ledger' = Append(ledger, r)
    /\ UNCHANGED <<transactions, categories, scores, archetype, result, calls>>

\* No analyzer call is running on any goroutine.
NoCalls == <<>>

NoInvocation ==
    /\ calls = NoCalls
    /\ transactions = <<>>
    /\ categories = <<>>
    /\ scores = NoScores
    /\ archetype = NoArchetype
    /\ result = NoResult

(***************************************************************************)
(* SpecAnalytics: short histories over varied records; the spending        *)
(* handler and the scorer run between additions.                           *)
(***************************************************************************)
MaxAnalyze == 3

AnalyzeRows ==
    {[type |-> "send", amount |-> "1.00", category |-> "food", balance_after |-> "3.00"],
     [type |-> "send", amount |-> "2.50", category |-> "savings", balance_after |-> "0.50"],
     [type |-> "send", amount |-> "n/a", category |-> "", balance_after |-> ""],
     [type |-> "receive", amount |-> "3.00", category |-> "food", balance_after |-> "0"],
     [type |-> "refund", amount |-> "1.50", category |-> "savings", balance_after |-> "1.50"]}

InitEmpty == ledger = <<>> /\ NoInvocation

AddAnalyzeRecord == AddRecord(AnalyzeRows, MaxAnalyze)

NextAnalytics == AddAnalyzeRecord \/ AnalyzeSpending \/ CallScorer

SpecAnalytics == InitEmpty /\ [][NextAnalytics]_vars

(***************************************************************************)
(* Spec: the three handlers over histories of up to MaxLedger records:     *)
(* savings sends, then food sends, then receives.                          *)
(***************************************************************************)
MaxLedger == 10

Repeat(row, n) == [i \in 1..n |-> row]

SavingsRow ==
    [type |-> "send", amount |-> "0.50", category |-> "savings", balance_after |-> "1.00"]
FoodRow ==
    [type |-> "send", amount |-> "1.50", category |-> "food", balance_after |-> "2.50"]
SalaryRow ==
    [type |-> "receive", amount |-> "3.00", category |-> "salary", balance_after |-> "3.00"]

Ledgers ==
    {Repeat(SavingsRow, s) \o Repeat(FoodRow, f) \o Repeat(SalaryRow, r) :
        <<s, f, r>> \in {t \in (0..MaxLedger) \X (0..MaxLedger) \X (0..MaxLedger) :
                            t[1] + t[2] + t[3] <= MaxLedger}}

Init == ledger \in Ledgers /\ NoInvocation

\* Each behaviour follows one invocation: a handler keeps nothing between
\* invocations, so a second one from the same history reaches nothing new.
FirstInvocation == result = NoResult

Next ==
    \/ FirstInvocation /\ AnalyzeSpending
    \/ FirstInvocation /\ AnalyzeMoneyPersonality
    \/ FirstInvocation /\ GetCSVTransactions

Spec == Init /\ [][Next]_vars

(***************************************************************************)
(* SpecCategories: the spending handler over histories of sends in up to   *)
(* MaxCategoryLedger records; a category not yet used is the next of       *)
(* CategoryNames (the analyzer only compares category names).              *)
(***************************************************************************)
MaxCategoryLedger == 6

CategoryNames == <<"food", "rent", "travel", "fun", "health", "gifts", "pets">>

usedCategories(rows) == {rows[i].category : i \in 1..Len(rows)} \ {""}

categoryRowsAfter(rows) ==
    LET k == Cardinality(usedCategories(rows))
        names == {CategoryNames[i] : i \in 1..Min(k + 1, Len(CategoryNames))}
    IN  {[type |-> "send", amount |-> "1.00", category |-> c, balance_after |-> ""] :
            c \in names}
        \cup {[type |-> "send", amount |-> "2.50", category |-> CategoryNames[1],
               balance_after |-> ""]}

\* the histories of exactly n records
RECURSIVE categoryLedgersOf(_)
categoryLedgersOf(n) ==
    IF n = 0 THEN {<<>>}
    ELSE UNION {{Append(l, r) : r \in categoryRowsAfter(l)} :
                    l \in categoryLedgersOf(n - 1)}

CategoryLedgers == UNION {categoryLedgersOf(n) : n \in 0..MaxCategoryLedger}

InitCategories == ledger \in CategoryLedgers /\ NoInvocation

\* The ranking does not read days nor the source: one value of each.
NextCategories == FirstInvocation /\ AnalyzeSpendingFor({0}, {TRUE})

SpecCategories == InitCategories /\ [][NextCategories]_vars

(***************************************************************************)
(* SpecCashflow: the spending handler over histories of up to MaxCashflow  *)
(* records whose amounts have a part below the cent.                       *)
(***************************************************************************)
MaxCashflow == 3

CashflowRows ==
    {[type |-> "send", amount |-> "0.125", category |-> "food", balance_after |-> ""],
     [type |-> "send", amount |-> "0.375", category |-> "rent", balance_after |-> ""],
     [type |-> "receive", amount |-> "0.125", category |-> "", balance_after |-> ""],
     [type |-> "receive", amount |-> "0.375", category |-> "", balance_after |-> ""],
     [type |-> "receive", amount |-> "1.00", category |-> "", balance_after |-> ""]}

RECURSIVE cashflowLedgersOf(_)
cashflowLedgersOf(n) ==
    IF n = 0 THEN {<<>>}
    ELSE {Append(l, r) : l \in cashflowLedgersOf(n - 1), r \in CashflowRows}

CashflowLedgers == UNION {cashflowLedgersOf(n) : n \in 0..MaxCashflow}

InitCashflow == ledger \in CashflowLedgers /\ NoInvocation

NextCashflow == FirstInvocation /\ AnalyzeSpendingFor({0, 7}, BOOLEAN)

SpecCashflow == InitCashflow /\ [][NextCashflow]_vars

(***************************************************************************)
(* SpecConcurrent: MaxCalls calls of the three analyzers run on goroutines *)
(* of their own over one fetched record list and one score map; a step is  *)
(* one pass of a call's loop, or its return.                               *)
(***************************************************************************)
MaxCalls == 2
MaxRecords == 2

Analyzers == {"analyzeTransactions", "calculatePersonalityScores", "matchArchetype"}

\* The window the concurrent analyzeTransactions calls are given.
CallDays == 7

\* The locals of a call of fn before its first statement, and what it has
\* returned (ret) once done.
frame(fn) ==
    [fn |-> fn, i |-> 1, done |-> FALSE,
     totals |-> NoTotals, collected |-> NoCollected, best |-> NoBest,
     report |-> [summary |-> ""], scores |-> NoScores, archetype |-> NoArchetype]

\* The frame that holds the locals call c works on: a call's totals, lists
\* and best match are variables of the function body, new on every call.
localsOf(c) == c

ConcurrentRows ==
    {[type |-> "send", amount |-> "1.00", category |-> "food", balance_after |-> "3.00"],
     [type |-> "send", amount |-> "2.50", category |-> "savings", balance_after |-> "0.50"]}

RECURSIVE concurrentLedgersOf(_)
concurrentLedgersOf(n) ==
    IF n = 0 THEN {<<>>}
    ELSE {Append(l, r) : l \in concurrentLedgersOf(n - 1), r \in ConcurrentRows}

ConcurrentScores ==
    {("transaction_velocity" :> 50) @@ ("income_response" :> 50),
     ("transaction_velocity" :> 100) @@ ("savings_affinity" :> 100)
        @@ ("balance_comfort" :> 30) @@ ("income_response" :> 50)}

InitConcurrent ==
    /\ ledger \in UNION {concurrentLedgersOf(n) : n \in 0..MaxRecords}
    /\ transactions = loadTransactionsFromCSV("ok", ledger).txs
    /\ scores \in ConcurrentScores
    /\ categories = <<>>
    /\ archetype = NoArchetype
    /\ result = NoResult
    /\ calls \in [1..MaxCalls -> {frame(fn) : fn \in Analyzers}]

Running(c, fn) == calls[c].fn = fn /\ ~calls[c].done

\* One step of call c of analyzeTransactions.
StepAnalyze(c) ==
    /\ Running(c, "analyzeTransactions")
    /\ LET o == localsOf(c)
           i == calls[c].i
       IN  IF Len(transactions) = 0
           THEN calls' = [calls EXCEPT ![c].done = TRUE,
                                       ![c].report = [summary |-> NoDataSummary]]
           ELSE IF i <= Len(transactions)
           THEN calls' = [calls EXCEPT
                            ![o].totals = analyzeRecord(@, transactions[i]),
                            ![c].i = i + 1]
           ELSE \E order \in rangeOrders(DOMAIN calls[o].totals.categorySpending) :
                  calls' = [calls EXCEPT
                              ![c].done = TRUE,
                              ![c].report = reportOf(calls[o].totals, CallDays, order)]
    /\ UNCHANGED <<ledger, transactions, categories, scores, archetype, result>>

\* One step of call c of calculatePersonalityScores.
StepScore(c) ==
    /\ Running(c, "calculatePersonalityScores")
    /\ LET o == localsOf(c)
           i == calls[c].i
       IN  IF i <= Len(transactions)
           THEN calls' = [calls EXCEPT
                            ![o].collected = scoreRecord(@, transactions[i]),
                            ![c].i = i + 1]
           ELSE calls' = [calls EXCEPT
                            ![c].done = TRUE,
                            ![c].scores = scoresFrom(calls[o].collected,
                                                     Len(transactions))]
    /\ UNCHANGED <<ledger, transactions, categories, scores, archetype, result>>

\* One step of call c of matchArchetype.
StepMatch(c) ==
    /\ Running(c, "matchArchetype")
    /\ LET o == localsOf(c)
           i == calls[c].i
       IN  IF i <= Len(Archetypes)
           THEN calls' = [calls EXCEPT
                            ![o].best = bestStep(scores, i, @),
                            ![c].i = i + 1]
           ELSE calls' = [calls EXCEPT
                            ![c].done = TRUE,
                            ![c].archetype = archetypeFrom(calls[o].best, scores)]
    /\ UNCHANGED <<ledger, transactions, categories, scores, archetype, result>>

NextConcurrent ==
    \E c \in 1..MaxCalls : StepAnalyze(c) \/ StepScore(c) \/ StepMatch(c)

SpecConcurrent == InitConcurrent /\ [][NextConcurrent]_vars

(***************************************************************************)
(* SpecBalances: the scorer called on histories of up to MaxBalances       *)
(* records whose balance_after is positive, zero, negative, not a number   *)
(* or missing, on records of every type.                                   *)
(***************************************************************************)
MaxBalances == 4

BalanceRows ==
    {[type |-> "send", amount |-> "1.00", category |-> "food", balance_after |-> "3.00"],
     [type |-> "receive", amount |-> "3.00", category |-> "", balance_after |-> "-1.00"],
     [type |-> "refund", amount |-> "1.50", category |-> "", balance_after |-> "0.50"],
     [type |-> "send", amount |-> "1.00", category |-> "food", balance_after |-> "0"],
     [type |-> "send", amount |-> "1.00", category |-> "food", balance_after |-> "n/a"],
     [type |-> "receive", amount |-> "3.00", category |-> "", balance_after |-> "1.50"]}

RECURSIVE balanceLedgersOf(_)
balanceLedgersOf(n) ==
    IF n = 0 THEN {<<>>}
    ELSE {Append(l, r) : l \in balanceLedgersOf(n - 1), r \in BalanceRows}

InitBalances ==
    /\ ledger \in UNION {balanceLedgersOf(n) : n \in 0..MaxBalances}
    /\ NoInvocation

NextBalances == CallScorer

SpecBalances == InitBalances /\ [][NextBalances]_vars

(***************************************************************************)
(* SpecMatch: matchArchetype on every score map over ScoreGrid, each key   *)
(* present or absent.                                                      *)
(***************************************************************************)
ScoreGrid == {0, 30, 50, 100}

ScoreKeys ==
    {"transaction_velocity", "amount_distribution", "balance_comfort",
     "savings_affinity", "income_response"}

ScoreMaps == UNION {[keys -> ScoreGrid] : keys \in SUBSET ScoreKeys}

InitMatch ==
    /\ scores \in ScoreMaps
    /\ calls = NoCalls
    /\ ledger = <<>>
    /\ transactions = <<>>
    /\ categories = <<>>
    /\ archetype = NoArchetype
    /\ result = NoResult

NextMatch == CallMatcher

SpecMatch == InitMatch /\ [][NextMatch]_vars

(***************************************************************************)
(* Properties.                                                             *)
(***************************************************************************)
RECURSIVE SumOver(_, _)
SumOver(f, I) ==
    IF I = {} THEN 0
    ELSE LET i == CHOOSE j \in I : TRUE IN f[i] + SumOver(f, I \ {i})

IndicesOfType(txs, t) == {i \in 1..Len(txs) : asString(txs[i].type) = t}
AmountsOf(txs) == [i \in 1..Len(txs) |-> asFloat(txs[i].amount)]

\* The last invocation was analyze_spending and returned a report.
IsSpendingReport == result.tool = "analyze_spending" /\ result.Success

\* C1: for a non-empty record list the report's total_spent is the sum of
\* the amounts of the send records and total_received the sum of the amounts
\* of the receive records (as "%.2f" shows them), and spend_count and
\* receive_count are the numbers of records of each type.
C1_TotalsExact ==
    (IsSpendingReport /\ Len(transactions) > 0) =>
        LET a == result.Data.analysis
            sends == IndicesOfType(transactions, "send")
            receives == IndicesOfType(transactions, "receive")
        IN  /\ a.total_spent = Format2(SumOver(AmountsOf(transactions), sends))
            /\ a.total_received = Format2(SumOver(AmountsOf(transactions), receives))
            /\ a.spend_count = Cardinality(sends)
            /\ a.receive_count = Cardinality(receives)

\* A report on a list with sends and receives of non-zero totals.
C1_Witness ==
    /\ IsSpendingReport
    /\ Cardinality(IndicesOfType(transactions, "send")) >= 2
    /\ IndicesOfType(transactions, "receive") # {}
    /\ result.Data.analysis.total_spent.cents > 0
    /\ result.Data.analysis.total_received.cents > 0

\* The last invocation was analyze_money_personality and its fetch succeeded.
PersonalityOnList ==
    /\ result.tool = "analyze_money_personality"
    /\ result.Error \notin {"invalid input", "failed to load CSV",
                            "failed to fetch transactions", "transaction fetch failed"}

\* C2: on a list of fewer than 10 records the analyze_money_personality
\* handler returns Success=false with the insufficient-data error, calls
\* neither the scorer nor the matcher and returns no profile; on a list of
\* 10 or more records it returns a profile.
C2_MinimumTen ==
    PersonalityOnList =>
        /\ Len(transactions) < 10 =>
              /\ ~result.Success
              /\ result.Error = InsufficientData
              /\ result.Data = NoData
              /\ scores = NoScores
              /\ archetype = NoArchetype
        /\ Len(transactions) >= 10 =>
              /\ result.Success
              /\ result.Data.kind = "personality"
              /\ result.Data.personality_type \in {Archetypes[i] : i \in 1..Len(Archetypes)}
              /\ result.Data.raw_scores = scores

\* A profile returned for a list of exactly 10 records.
C2_Witness ==
    /\ PersonalityOnList
    /\ Len(transactions) = 10
    /\ result.Success
    /\ result.Data.kind = "personality"

ScoresCalled == DOMAIN scores # {}

NonNegativeRecords(txs) ==
    \A i \in 1..Len(txs) :
        asFloat(txs[i].amount) >= 0 /\ asFloat(txs[i].balance_after) >= 0

ArchetypeIndices == 1..Len(Archetypes)

\* The earliest archetype, in catalog order, whose formula value is the maximum.
FirstMaximum(s) ==
    CHOOSE i \in ArchetypeIndices :
        /\ \A j \in ArchetypeIndices : matcher(j, s) <= matcher(i, s)
        /\ \A j \in ArchetypeIndices : j < i => matcher(j, s) < matcher(i, s)

MatcherCalled == archetype # NoArchetype

\* C4: matchArchetype returns the archetype whose formula value is the
\* maximum of the five (an absent key reading 0), the earliest in catalog
\* order when several share the maximum.
C4_MaximumFirstWins ==
    MatcherCalled => archetype.Type = Archetypes[FirstMaximum(scores)]

\* A map with an absent key on which two archetypes share the maximum and
\* the earlier one, not the first of the catalog, is returned.
C4_Witness ==
    /\ MatcherCalled
    /\ DOMAIN scores # ScoreKeys
    /\ \E i, j \in ArchetypeIndices :
          /\ 1 < i /\ i < j
          /\ matcher(i, scores) = matcher(j, scores)
          /\ \A k \in ArchetypeIndices : matcher(k, scores) <= matcher(i, scores)
          /\ archetype.Type = Archetypes[i]

\* The largest formula value, and the largest of the other four.
Highest(s) ==
    CHOOSE v \in {matcher(i, s) : i \in ArchetypeIndices} :
        \A j \in ArchetypeIndices : matcher(j, s) <= v
SecondHighest(s) ==
    LET top == CHOOSE i \in ArchetypeIndices : matcher(i, s) = Highest(s)
    IN  CHOOSE v \in {matcher(i, s) : i \in ArchetypeIndices \ {top}} :
            \A j \in ArchetypeIndices \ {top} : matcher(j, s) <= v

\* C5: the confidence is min(0.5 + (highest - secondHighest)/100, 0.95),
\* highest and secondHighest the two largest of the five formula values,
\* and so lies in 0.5..0.95 (here in thousandths, the values in tenths).
C5_Confidence ==
    MatcherCalled =>
        /\ archetype.Confidence = Min(500 + (Highest(scores) - SecondHighest(scores)), 950)
        /\ 500 <= archetype.Confidence /\ archetype.Confidence <= 950

\* A confidence strictly between the bounds, the lowest value differing
\* from the second highest.
C5_Witness ==
    /\ MatcherCalled
    /\ archetype.Confidence > 500 /\ archetype.Confidence < 950
    /\ \E i \in ArchetypeIndices : matcher(i, scores) < SecondHighest(scores)

\* C6: calculateVelocity classifies spendCount/windowDays*7 as low below 2,
\* moderate from 2 to below 7 and high from 7 on; with windowDays=7 a
\* spendCount of 1 is low, of 2 moderate and of 7 high.
C6_VelocityBounds ==
    (IsSpendingReport /\ Len(transactions) > 0) =>
        LET a == result.Data.analysis
            n == a.spend_count
            d == result.Data.period_days
        IN  /\ d > 0 /\ 7 * n < 2 * d => a.velocity = "low"
            /\ d > 0 /\ 2 * d <= 7 * n /\ 7 * n < 7 * d => a.velocity = "moderate"
            /\ d > 0 /\ 7 * d <= 7 * n => a.velocity = "high"
            /\ d < 0 => a.velocity = "low"
            /\ d = 7 /\ n = 1 => a.velocity = "low"
            /\ d = 7 /\ n = 2 => a.velocity = "moderate"
            /\ d = 7 /\ n = 7 => a.velocity = "high"

\* Exactly two spending transactions per week: seven days, two sends.
C6_Witness ==
    /\ IsSpendingReport
    /\ Len(transactions) > 0
    /\ result.Data.period_days = 7
    /\ result.Data.analysis.spend_count = 2
    /\ result.Data.analysis.velocity = "moderate"

\* The categories of the send records, and the total of one of them.
SendCategories(txs) ==
    {asString(txs[i].category) : i \in IndicesOfType(txs, "send")} \ {""}
CategoryTotal(txs, c) ==
    SumOver(AmountsOf(txs),
            {i \in IndicesOfType(txs, "send") : asString(txs[i].category) = c})

\* C7: top_categories has at most 5 entries, each showing the full total of
\* the send amounts of its non-empty category; the entries are the first of
\* the ranking, which is non-increasing by amount, and no dropped category
\* has a larger total than a retained one.
C7_TopFive ==
    (IsSpendingReport /\ Len(transactions) > 0) =>
        LET top == result.Data.analysis.top_categories
            all == SendCategories(transactions)
        IN  /\ Cardinality(DOMAIN top) <= 5
            /\ DOMAIN top \subseteq all
            /\ \A c \in DOMAIN top :
                  top[c] = FormatDollar2(CategoryTotal(transactions, c))
            /\ {categories[i].Category : i \in 1..Len(categories)} = all
            /\ Len(categories) = Cardinality(all)
            /\ \A i \in 1..Len(categories) :
                  categories[i].Amount = CategoryTotal(transactions, categories[i].Category)
            /\ \A i \in 1..(Len(categories) - 1) :
                  categories[i].Amount >= categories[i + 1].Amount
            /\ DOMAIN top = {categories[i].Category : i \in 1..Min(5, Len(categories))}
            /\ \A c \in DOMAIN top, d \in all \ DOMAIN top :
                  CategoryTotal(transactions, d) <= CategoryTotal(transactions, c)

\* More than 5 categories, of unequal totals, one of them dropped.
C7_Witness ==
    /\ IsSpendingReport
    /\ Len(transactions) > 0
    /\ Cardinality(SendCategories(transactions)) > 5
    /\ Cardinality(DOMAIN result.Data.analysis.top_categories) = 5
    /\ categories[1].Amount > categories[5].Amount

\* The index of the first send record of category c.
FirstSeen(txs, c) ==
    CHOOSE i \in IndicesOfType(txs, "send") :
        /\ asString(txs[i].category) = c
        /\ \A j \in IndicesOfType(txs, "send") :
              asString(txs[j].category) = c => i <= j

\* C8: categories of equal totals are ranked in first-encountered order, so
\* of a tie that straddles rank 5 the category met first in the input is
\* the one retained in top_categories.
C8_TiesFirstEncountered ==
    (IsSpendingReport /\ Len(transactions) > 0) =>
        LET top == result.Data.analysis.top_categories
            all == SendCategories(transactions)
        IN  /\ \A i, j \in 1..Len(categories) :
                  (i < j /\ categories[i].Amount = categories[j].Amount) =>
                      FirstSeen(transactions, categories[i].Category)
                          < FirstSeen(transactions, categories[j].Category)
            /\ \A c \in DOMAIN top, d \in all \ DOMAIN top :
                  CategoryTotal(transactions, c) = CategoryTotal(transactions, d) =>
                      FirstSeen(transactions, c) < FirstSeen(transactions, d)

\* The record list of this invocation is that of the one before it with one
\* record of a type other than send and receive added at its end.
UnknownType(tx) == asString(tx.type) \notin {"send", "receive"}
AppendedUnknown ==
    /\ Len(transactions') = Len(transactions) + 1
    /\ SubSeq(transactions', 1, Len(transactions)) = transactions
    /\ UnknownType(transactions'[Len(transactions')])

\* Two reports in a row, for the same window.
SameSpendingCall ==
    /\ IsSpendingReport
    /\ IsSpendingReport'
    /\ result'.Data.period_days = result.Data.period_days

SameScore(key) ==
    /\ (key \in DOMAIN scores') = (key \in DOMAIN scores)
    /\ key \in DOMAIN scores => scores'[key] = scores[key]

\* C9, as stated: adding a record of a type other than send and receive to a
\* record list changes no field of the analyzeTransactions report and no
\* score of calculatePersonalityScores.
C9_UnknownTypeIgnored ==
    [][AppendedUnknown =>
          /\ SameSpendingCall => result'.Data.analysis = result.Data.analysis
          /\ (ScoresCalled /\ ScoresCalled') => scores' = scores]_vars

\* C9, amended: adding such a record to a NON-EMPTY record list changes no
\* field of the analyzeTransactions report, and in calculatePersonalityScores
\* it leaves amount_distribution and income_response as they were (it counts
\* in the record total behind transaction_velocity and savings_affinity, and
\* a positive balance_after of it enters balance_comfort).
C9_UnknownTypeAmended ==
    [][AppendedUnknown =>
          /\ (SameSpendingCall /\ Len(transactions) > 0) =>
                result'.Data.analysis = result.Data.analysis
          /\ (ScoresCalled /\ ScoresCalled') =>
                SameScore("amount_distribution") /\ SameScore("income_response")]_vars

\* A report on a non-empty list, and a record of another type added to the
\* history since.
C9_Witness ==
    /\ IsSpendingReport
    /\ Len(transactions) > 0
    /\ Len(ledger) = Len(transactions) + 1
    /\ ledger[Len(ledger)].type \notin {"send", "receive"}
    /\ \A i \in 1..Len(transactions) :
          asString(transactions[i].type) = ledger[i].type

\* C10: every handler invocation ends by returning a ToolResult with a nil
\* Go error, Success=false going with a non-empty Error; none panics.
C10_AlwaysAResult ==
    result # NoResult =>
        /\ result.fault = ""
        /\ result.goErr = "nil"
        /\ ~result.Success => result.Error # ""

C12_NetCashflow ==
    IsSpendingReport =>
        LET a == result.Data.analysis
            received == SumOver(AmountsOf(transactions),
                                IndicesOfType(transactions, "receive"))
            spent == SumOver(AmountsOf(transactions),
                             IndicesOfType(transactions, "send"))
        IN  IF Len(transactions) = 0
            THEN "net_cashflow" \notin DOMAIN a
            ELSE /\ a.total_received = Format2(received)
                 /\ a.total_spent = Format2(spent)
                 /\ a.net_cashflow = Format2(received - spent)
                 /\ a.net_cashflow.txt = ""

\* A negative net cash flow that is not the difference of the two totals as
\* the report displays them: the difference is taken before the rounding.
C12_Witness ==
    /\ IsSpendingReport
    /\ Len(transactions) > 0
    /\ result.Data.analysis.net_cashflow.cents < 0
    /\ result.Data.analysis.net_cashflow.cents
          # result.Data.analysis.total_received.cents
              - result.Data.analysis.total_spent.cents

\* C13: on an empty record list the report holds the "no data" summary and
\* no other field, whatever the window.
C13_EmptyReport ==
    (IsSpendingReport /\ Len(transactions) = 0) =>
        /\ DOMAIN result.Data.analysis = {"summary"}
        /\ result.Data.analysis.summary
              = "No transactions found in the specified period"
        /\ result.Data.total_transactions = 0

\* The report on an empty list for a window of -7 days, with a history that
\* holds records (the API's data could not be decoded).
C13_Witness ==
    /\ IsSpendingReport
    /\ Len(transactions) = 0
    /\ Len(ledger) > 0
    /\ result.Data.period_days = -7
    /\ DOMAIN result.Data.analysis = {"summary"}

\* What call c returns when it runs alone on the record list and score map.
ReturnsAsAlone(c) ==
    CASE calls[c].fn = "analyzeTransactions" ->
            \E order \in rangeOrders(SendCategories(transactions)) :
                calls[c].report = analyzeTransactions(transactions, CallDays, order)
      [] calls[c].fn = "calculatePersonalityScores" ->
            calls[c].scores = calculatePersonalityScores(transactions)
      [] OTHER ->
            calls[c].archetype = matchArchetype(scores)

\* C14: whatever the interleaving of concurrent analyzeTransactions,
\* calculatePersonalityScores and matchArchetype calls over one record list,
\* each call returns what it returns when run alone, and the records stay
\* as they were fetched.
C14_ConcurrentCalls ==
    calls # NoCalls =>
        /\ \A c \in DOMAIN calls : calls[c].done => ReturnsAsAlone(c)
        /\ transactions = loadTransactionsFromCSV("ok", ledger).txs

\* Two calls of one analyzer overlapped: one has returned while the other,
\* begun before that, is still in its loop over the same records.
C14_Witness ==
    /\ calls # NoCalls
    /\ Len(transactions) = MaxRecords
    /\ \E c, d \in DOMAIN calls :
          /\ c # d
          /\ calls[c].fn = calls[d].fn
          /\ calls[c].fn # "matchArchetype"
          /\ calls[c].done
          /\ ~calls[d].done
          /\ calls[d].i > 1

\* The balance_after values above 0, of records of every type, in list order.
ValidBalanceIndices(txs) ==
    {i \in 1..Len(txs) : asFloat(txs[i].balance_after) > 0}

\* C15: the map calculatePersonalityScores returns holds transaction_velocity,
\* amount_distribution, savings_affinity and income_response for every record
\* list, balance_comfort exactly when some record has balance_after > 0, and
\* no other key; amount_distribution is 0 when there is no send amount or
\* the send amounts have mean 0.
C15_ScoreKeys ==
    ScoresCalled =>
        LET sends == IndicesOfType(transactions, "send")
            always == {"transaction_velocity", "amount_distribution",
                       "savings_affinity", "income_response"}
        IN  /\ always \subseteq DOMAIN scores
            /\ DOMAIN scores \subseteq always \cup {"balance_comfort"}
            /\ ("balance_comfort" \in DOMAIN scores)
                  = (ValidBalanceIndices(transactions) # {})
            /\ (sends = {} \/ SumOver(AmountsOf(transactions), sends) = 0)
                  => scores["amount_distribution"] = 0

\* C16: analyzeTransactions is given a window above 0 whatever days the
\* caller sends, so the average daily spend is never a quotient by a zero
\* or negative window.
C16_PositiveWindow ==
    IsSpendingReport =>
        /\ result.Data.period_days > 0
        /\ Len(transactions) > 0 =>
              /\ result.Data.analysis.insights[1].days > 0
              /\ result.Data.analysis.avg_daily_spend.txt = ""
              /\ result.Data.analysis.avg_daily_spend.cents >= 0

\* The smallest of the values f[i], i in the non-empty set I.
MinOver(f, I) == CHOOSE v \in {f[i] : i \in I} : \A i \in I : v <= f[i]

BalancesOf(txs) == [i \in 1..Len(txs) |-> asFloat(txs[i].balance_after)]

\* C17: when some record has balance_after > 0, balance_comfort is
\* min(smallest / mean * 100, 100) over the balance_after values above 0 of
\* the records of every type (in whole points); a balance_after that is 0,
\* negative, missing or not a number enters neither the minimum nor the mean.
C17_BalanceComfort ==
    (ScoresCalled /\ ValidBalanceIndices(transactions) # {}) =>
        LET valid == ValidBalanceIndices(transactions)
            smallest == MinOver(BalancesOf(transactions), valid)
            sum == SumOver(BalancesOf(transactions), valid)
        IN  /\ "balance_comfort" \in DOMAIN scores
            /\ scores["balance_comfort"]
                  = Min((smallest * 100 * Cardinality(valid)) \div sum, 100)

\* Valid balances on a record that is no send, a negative and a non-numeric
\* balance beside them, and a comfort strictly inside the range.
C17_Witness ==
    /\ ScoresCalled
    /\ \E i \in ValidBalanceIndices(transactions) :
          asString(transactions[i].type) # "send"
    /\ \E i \in 1..Len(transactions) : asFloat(transactions[i].balance_after) < 0
    /\ \E i \in 1..Len(transactions) : transactions[i].balance_after.tag = "string"
    /\ scores["balance_comfort"] > 0
    /\ scores["balance_comfort"] < 100

\* C18: get_csv_transactions on a readable file returns at most limit
\* transactions (at most 50 for a limit of 0 or none), a prefix of the
\* file's rows in file order, and a count equal to their number.
C18_LimitedPrefix ==
    (/\ result.tool = "get_csv_transactions"
     /\ result.Error \notin {"invalid input", "failed to load transactions from CSV"}) =>
        LET rows == loadTransactionsFromCSV("ok", ledger).txs
        IN  /\ result.fault = ""
            /\ result.Success
            /\ result.Data.count = Len(result.Data.transactions)
            /\ result.Data.count <= Len(rows)
            /\ result.Data.transactions = SubSeq(rows, 1, result.Data.count)
            /\ \E limitIn \in LimitInputs :
                  LET limit == IF limitIn = 0 THEN DefaultLimit ELSE limitIn
                  IN  result.Data.count = Min(limit, Len(rows))
====
